---- MODULE Spec2Model ----
(***************************************************************************)
(* TokenEff: ToonFormatter.format (src/src/tokeneff/formatters/            *)
(* toon_formatter.py) and the translate collaborator                       *)
(* (src/src/tokeneff/core/translation/translation.py).                     *)
(*                                                                         *)
(* A text is a sequence of characters, a character a one-character string  *)
(* ("\n", "\r", "\f", "\"" and "\\" are the escaped ones).  A value of the *)
(* input tree is a tagged record:                                          *)
(*   [t |-> "null"]  [t |-> "bool", b]  [t |-> "int", n]                   *)
(*   [t |-> "float", ip, fd]   (the float ip + fd/10, ip >= 0)             *)
(*   [t |-> "str", s]          (s a text)                                  *)
(*   [t |-> "list", items]     (a sequence of values)                      *)
(*   [t |-> "dict", kv]        (a sequence of <<key, value>>, keys texts,  *)
(*                              in insertion order, keys unique)           *)
(*   [t |-> "opaque"]          (any other Python object)                   *)
(***************************************************************************)
EXTENDS Integers, Sequences, FiniteSets, TLC

VARIABLES
    pc,                 \* where format() stands
    data,               \* format(data, ...)
    delimiter,          \* options["delimiter"], one character
    indent,             \* options["indent"]
    key_folding,        \* options["key_folding"]
    strict_fallback,    \* options["strict_fallback"]: "none", "json", "compact"
    translate_to,       \* options["translate_to"]: "none" or a language
    translator,         \* the process: "available", "no_library", "import_failed"
    exc,                \* the exception in flight or raised to the caller ("" = none)
    content,            \* the local `content`
    pieces,             \* the local `pieces`
    translated_pieces,  \* the local `translated_pieces`
    outcomes,           \* per translated piece, how its translate call ended
    token_count         \* the local `tokens` ("none" = None)

vars == <<pc, data, delimiter, indent, key_folding, strict_fallback, translate_to,
          translator, exc, content, pieces, translated_pieces, outcomes, token_count>>

---------------------------------------------------------------------------
(* Bounds of the model *)

MaxIndent == 2
MaxArrLen == 2
MaxStrLen == 3
MaxTextLen == 6
\* ToonFormatter.TRANSLATE_CHUNK_SIZE is 4000 (toon_formatter.py:29); the model
\* runs the same splitter with a limit scaled down to the texts it explores.
TRANSLATE_CHUNK_SIZE == 4

---------------------------------------------------------------------------
(* Texts *)

Spaces(n) == [i \in 1..n |-> " "]

RECURSIVE Join(_, _)
Join(parts, sep) ==
    IF parts = <<>> THEN <<>>
    ELSE IF Len(parts) = 1 THEN parts[1]
    ELSE parts[1] \o sep \o Join(Tail(parts), sep)

RECURSIVE Replace(_, _, _)
Replace(s, c, r) ==
    IF s = <<>> THEN <<>>
    ELSE (IF Head(s) = c THEN r ELSE <<Head(s)>>) \o Replace(Tail(s), c, r)

StartsWith(s, p) == Len(s) >= Len(p) /\ SubSeq(s, 1, Len(p)) = p
EndsWith(s, p) == Len(s) >= Len(p) /\ SubSeq(s, Len(s) - Len(p) + 1, Len(s)) = p
Contains(s, c) == \E i \in 1..Len(s) : s[i] = c

\* The characters str.splitlines() breaks a line at, among those of the model's
\* alphabet ("\r\n" counts as one break).  "\f" stands for the ones Python adds
\* to "\n" and "\r": VT, FF, FS, GS, RS, NEL, LS and PS.
LineBoundaries == {"\n", "\r", "\f"}

RECURSIVE SplitScan(_, _, _)
SplitScan(rest, cur, keepends) ==
    IF rest = <<>> THEN (IF cur = <<>> THEN <<>> ELSE <<cur>>)
    ELSE IF Head(rest) = "\r" /\ Len(rest) >= 2 /\ rest[2] = "\n"
        THEN <<cur \o (IF keepends THEN <<"\r", "\n">> ELSE <<>>)>>
             \o SplitScan(SubSeq(rest, 3, Len(rest)), <<>>, keepends)
    ELSE IF Head(rest) \in LineBoundaries
        THEN <<cur \o (IF keepends THEN <<Head(rest)>> ELSE <<>>)>>
             \o SplitScan(Tail(rest), <<>>, keepends)
    ELSE SplitScan(Tail(rest), Append(cur, Head(rest)), keepends)

SplitLines(text) == SplitScan(text, <<>>, FALSE)
SplitLinesKeepEnds(text) == SplitScan(text, <<>>, TRUE)

\* ln.strip() == "": nothing but whitespace (a split line holds no line break)
IsBlank(ln) == \A i \in 1..Len(ln) : ln[i] = " "

Digits == <<"0", "1", "2", "3", "4", "5", "6", "7", "8", "9">>

RECURSIVE NatToStr(_)
NatToStr(n) ==
    IF n < 10 THEN <<Digits[n + 1]>>
    ELSE NatToStr(n \div 10) \o <<Digits[(n % 10) + 1]>>

IntToStr(n) == IF n < 0 THEN <<"-">> \o NatToStr(-n) ELSE NatToStr(n)

---------------------------------------------------------------------------
(* Values *)

Null == [t |-> "null"]
BoolV(b) == [t |-> "bool", b |-> b]
IntV(n) == [t |-> "int", n |-> n]
FloatV(ip, fd) == [t |-> "float", ip |-> ip, fd |-> fd]
StrV(s) == [t |-> "str", s |-> s]
ListV(items) == [t |-> "list", items |-> items]
DictV(kv) == [t |-> "dict", kv |-> kv]
Opaque == [t |-> "opaque"]

Keys(obj) == [i \in 1..Len(obj.kv) |-> obj.kv[i][1]]
KeySet(obj) == {obj.kv[i][1] : i \in 1..Len(obj.kv)}
Lookup(obj, k) == (CHOOSE i \in 1..Len(obj.kv) : obj.kv[i][1] = k)

---------------------------------------------------------------------------
(* The primitive formatter *)

IsPrimitive(v) == v.t \in {"null", "str", "bool", "int", "float"}

Letters == {"a", "b", "c", "e", "f", "k", "l", "n", "o", "r", "s", "t", "u", "x",
            "y", "F", "N", "T"}
DigitChars == {Digits[i] : i \in 1..Len(Digits)}

ValidIdentifier(s) ==
    /\ Len(s) > 0
    /\ \A i \in 1..Len(s) : s[i] \in Letters \cup DigitChars \cup {"_"}
    /\ s[1] \in Letters \cup {"_"}

SpecialChars == {delimiter, ":", "\n", "\r", "\"", "\\"}

\* a slip: a space anywhere, not only a leading or trailing one, forces quotes
NeedsQuoteAnySpace(s) ==
    \/ Contains(s, " ")
    \/ \E ch \in SpecialChars : Contains(s, ch)
    \/ Len(s) = 0

NeedsQuote(s) ==
    \/ StartsWith(s, <<" ">>)
    \/ EndsWith(s, <<" ">>)
    \/ \E ch \in SpecialChars : Contains(s, ch)
    \/ Len(s) = 0

Escaped(s) ==
    LET e1 == Replace(s, "\\", <<"\\", "\\">>)
        e2 == Replace(e1, ":", <<"\\", ":">>)
        e3 == Replace(e2, delimiter, <<"\\", delimiter>>)
        e4 == Replace(e3, "\n", <<"\\", "n">>)
    IN  Replace(e4, "\r", <<"\\", "r">>)

EscapeAndQuoteString(s) ==
    IF NeedsQuote(s)
    THEN <<"\"">> \o Replace(Escaped(s), "\"", <<"\\", "\"">>) \o <<"\"">>
    ELSE Escaped(s)

\* repr(v) of the float ip + fd/10
ReprFloat(v) == NatToStr(v.ip) \o <<".">> \o <<Digits[v.fd + 1]>>

FloatText(v) ==
    LET s == ReprFloat(v)
    IN  IF EndsWith(s, <<".", "0">>) THEN SubSeq(s, 1, Len(s) - 2) ELSE s

\* _compact_primitive on a primitive; on anything else it falls through to
\* _escape_and_quote_string, whose v.replace raises (see Compact)
CompactPrimitive(v) ==
    CASE v.t = "null" -> <<"n", "u", "l", "l">>
      [] v.t = "bool" -> IF v.b THEN <<"t", "r", "u", "e">> ELSE <<"f", "a", "l", "s", "e">>
      [] v.t = "int" -> IntToStr(v.n)
      [] v.t = "float" -> FloatText(v)
      [] v.t = "str" -> EscapeAndQuoteString(v.s)

---------------------------------------------------------------------------
(* The array classifier and the key folder *)

IsUniformArrayOfPrimitives(arr) == \A i \in 1..Len(arr) : IsPrimitive(arr[i])

\* a slip: an array of one object is not taken for a table
IsUniformArrayOfObjectsOfTwo(arr) ==
    /\ Len(arr) >= 2
    /\ \A i \in 1..Len(arr) : arr[i].t = "dict"
    /\ \A i \in 1..Len(arr) : KeySet(arr[i]) = KeySet(arr[1])
    /\ \A i \in 1..Len(arr) : \A j \in 1..Len(arr[i].kv) : IsPrimitive(arr[i].kv[j][2])

IsUniformArrayOfObjects(arr) ==
    /\ arr # <<>>
    /\ \A i \in 1..Len(arr) : arr[i].t = "dict"
    /\ \A i \in 1..Len(arr) : KeySet(arr[i]) = KeySet(arr[1])
    /\ \A i \in 1..Len(arr) : \A j \in 1..Len(arr[i].kv) : IsPrimitive(arr[i].kv[j][2])

\* a slip: the loop of _fold_keys leaves after its first pass
FoldChainOnce(cur, keys) ==
    IF cur.t = "dict" /\ Len(cur.kv) = 1 /\ ValidIdentifier(cur.kv[1][1])
    THEN [keys |-> Append(keys, cur.kv[1][1]), cur |-> cur.kv[1][2]]
    ELSE [keys |-> keys, cur |-> cur]

\* the while loop of _fold_keys: the keys collected and the node it stops at
RECURSIVE FoldChain(_, _)
FoldChain(cur, keys) ==
    IF cur.t = "dict" /\ Len(cur.kv) = 1 /\ ValidIdentifier(cur.kv[1][1])
    THEN FoldChain(cur.kv[1][2], Append(keys, cur.kv[1][1]))
    ELSE [keys |-> keys, cur |-> cur]

\* _fold_keys(obj) with no prefix: (keyname, cur); the empty text stands for the
\* None it gives when it collected no key (both are false in `if folded_key`)
FoldKeys(obj) ==
    LET f == FoldChain(obj, <<>>)
    IN  [keyname |-> Join(f.keys, <<".">>), cur |-> f.cur, nkeys |-> Len(f.keys)]

---------------------------------------------------------------------------
(* The encoding engine.  A call gives [err, text]: err is "" and text the  *)
(* string returned, or err names the exception that left the call.         *)

Ok(text) == [err |-> "", text |-> text]
Raise(e) == [err |-> e, text |-> <<>>]

RECURSIVE Flatten(_)
Flatten(seqs) == IF seqs = <<>> THEN <<>> ELSE Head(seqs) \o Flatten(Tail(seqs))

\* the first exception of a left-to-right loop over results
FirstErr(rs) ==
    IF \A i \in 1..Len(rs) : rs[i].err = "" THEN ""
    ELSE rs[CHOOSE i \in 1..Len(rs) :
                /\ rs[i].err # ""
                /\ \A j \in 1..(i - 1) : rs[j].err = ""].err

KeyRepr(k) == IF ValidIdentifier(k) THEN k ELSE EscapeAndQuoteString(k)

Fields(arr) == Keys(arr[1])

Cells(item, fields) ==
    [j \in 1..Len(fields) |-> CompactPrimitive(item.kv[Lookup(item, fields[j])][2])]

TabularRows(arr, level) ==
    [i \in 1..Len(arr) |->
        Spaces(indent * (level + 1)) \o Join(Cells(arr[i], Fields(arr)), <<delimiter>>)]

LengthTag(arr) == <<"[">> \o NatToStr(Len(arr)) \o <<"]">>

FieldList(arr) == <<"{">> \o Join(Fields(arr), <<",">>) \o <<"}">>

PrimitiveCells(arr) ==
    Join([i \in 1..Len(arr) |-> CompactPrimitive(arr[i])], <<delimiter>>)

\* lines 199-204: the lines of a nested object's text, each brought to at
\* least the nested level's indentation
Reindent(nested_lines, prefix) ==
    [i \in 1..Len(nested_lines) |->
        IF IsBlank(nested_lines[i]) THEN prefix \o nested_lines[i]
        ELSE IF StartsWith(nested_lines[i], prefix) THEN nested_lines[i]
        ELSE prefix \o nested_lines[i]]

RECURSIVE Compact(_, _)

\* the dash items of a mixed or nested list
DashItems(arr, level) ==
    [i \in 1..Len(arr) |->
        IF IsPrimitive(arr[i])
        THEN Ok(Spaces(indent * (level + 1)) \o <<"-", " ">> \o CompactPrimitive(arr[i]))
        ELSE LET r == Compact(arr[i], level + 2)
             IN  IF r.err # "" THEN r
                 ELSE Ok(Spaces(indent * (level + 1)) \o <<"-", " ">> \o r.text)]

Texts(rs) == [i \in 1..Len(rs) |-> rs[i].text]

\* one pass of `for k, v in obj.items()`: the lines it appends
EntryLines(k, v, level) ==
    LET sp == Spaces(indent * level)
    IN  IF v.t = "list" THEN
            IF IsUniformArrayOfObjects(v.items) THEN
                [err |-> "",
                 lines |-> <<sp \o KeyRepr(k) \o LengthTag(v.items) \o FieldList(v.items)>>
                           \o TabularRows(v.items, level)]
            ELSE IF IsUniformArrayOfPrimitives(v.items) THEN
                [err |-> "",
                 lines |-> <<sp \o KeyRepr(k) \o LengthTag(v.items) \o <<":", " ">>
                             \o PrimitiveCells(v.items)>>]
            ELSE
                LET items == DashItems(v.items, level)
                IN  [err |-> FirstErr(items),
                     lines |-> <<sp \o KeyRepr(k) \o LengthTag(v.items) \o <<":">>>>
                               \o Texts(items)]
        ELSE IF v.t = "dict" THEN
            LET nested == Compact(v, level + 1)
            IN  [err |-> nested.err,
                 lines |-> <<sp \o KeyRepr(k) \o <<":">>>>
                           \o Reindent(SplitLines(nested.text),
                                       Spaces(indent * (level + 1)))]
        ELSE IF IsPrimitive(v) THEN
            [err |-> "", lines |-> <<sp \o KeyRepr(k) \o <<":", " ">> \o CompactPrimitive(v)>>]
        ELSE
            \* _compact_primitive -> _escape_and_quote_string: v.replace
            [err |-> "AttributeError", lines |-> <<>>]

\* lines 157-209: the entries of an object, in insertion order
CompactEntries(obj, level) ==
    LET es == [i \in 1..Len(obj.kv) |-> EntryLines(obj.kv[i][1], obj.kv[i][2], level)]
    IN  IF FirstErr(es) # "" THEN Raise(FirstErr(es))
        ELSE Ok(Join(Flatten([i \in 1..Len(es) |-> es[i].lines]), <<"\n">>))

\* lines 212-232: a list that is not the value of a key
CompactList(arr, level) ==
    LET sp == Spaces(indent * level)
    IN  IF IsUniformArrayOfObjects(arr) THEN
            Ok(sp \o LengthTag(arr) \o FieldList(arr) \o <<":">> \o <<"\n">>
               \o Join(TabularRows(arr, level), <<"\n">>))
        ELSE IF IsUniformArrayOfPrimitives(arr) THEN
            Ok(sp \o LengthTag(arr) \o <<":", " ">> \o PrimitiveCells(arr))
        ELSE
            LET items == DashItems(arr, level)
            IN  IF FirstErr(items) # "" THEN Raise(FirstErr(items))
                ELSE Ok(Join(<<sp \o LengthTag(arr) \o <<":">>>> \o Texts(items), <<"\n">>))

\* whether _compact takes the fold at line 153: `folded_key and folded_val is
\* not obj`; the loop leaves cur on obj exactly when it collected no key
TakesFold(obj) == key_folding /\ FoldKeys(obj).keyname # <<>> /\ FoldKeys(obj).nkeys > 0

\* the object of line 155, {folded_key: folded_val}
Folded(obj) == DictV(<< <<FoldKeys(obj).keyname, FoldKeys(obj).cur>> >>)

\* _compact(obj, level); parent_key is passed along and never read.  The call of
\* line 155 on an object equal to the caller's own, with the same level and
\* options, repeats itself until CPython's recursion limit ends it.
Compact(obj, level) ==
    IF obj.t = "dict" THEN
        IF TakesFold(obj) THEN
            IF Folded(obj) = obj THEN Raise("RecursionError")
            ELSE Compact(Folded(obj), level)
        ELSE CompactEntries(obj, level)
    ELSE IF obj.t = "list" THEN CompactList(obj.items, level)
    ELSE IF IsPrimitive(obj) THEN Ok(CompactPrimitive(obj))
    ELSE Raise("AttributeError")

---------------------------------------------------------------------------
(* The fallbacks of lines 240-258 *)

\* json's encoding of a str (ensure_ascii=False)
JsonString(s) ==
    LET e1 == Replace(s, "\\", <<"\\", "\\">>)
        e2 == Replace(e1, "\"", <<"\\", "\"">>)
        e3 == Replace(e2, "\n", <<"\\", "n">>)
        e4 == Replace(e3, "\r", <<"\\", "r">>)
    IN  <<"\"">> \o Replace(e4, "\f", <<"\\", "f">>) \o <<"\"">>

\* json.dumps(v, ensure_ascii=False); an object json cannot serialize is a TypeError
RECURSIVE JsonDumps(_)
JsonDumps(v) ==
    CASE v.t = "null" -> Ok(<<"n", "u", "l", "l">>)
      [] v.t = "bool" -> Ok(IF v.b THEN <<"t", "r", "u", "e">> ELSE <<"f", "a", "l", "s", "e">>)
      [] v.t = "int" -> Ok(IntToStr(v.n))
      [] v.t = "float" -> Ok(ReprFloat(v))
      [] v.t = "str" -> Ok(JsonString(v.s))
      [] v.t = "list" ->
            LET rs == [i \in 1..Len(v.items) |-> JsonDumps(v.items[i])]
            IN  IF FirstErr(rs) # "" THEN Raise(FirstErr(rs))
                ELSE Ok(<<"[">> \o Join(Texts(rs), <<",", " ">>) \o <<"]">>)
      [] v.t = "dict" ->
            LET rs == [i \in 1..Len(v.kv) |-> JsonDumps(v.kv[i][2])]
            IN  IF FirstErr(rs) # "" THEN Raise(FirstErr(rs))
                ELSE Ok(<<"{">>
                        \o Join([i \in 1..Len(v.kv) |->
                                    JsonString(v.kv[i][1]) \o <<":", " ">> \o rs[i].text],
                                <<",", " ">>)
                        \o <<"}">>)
      [] OTHER -> Raise("TypeError")

\* str(o) of a leaf; an object without __str__ prints as its default repr
PyStr(o) ==
    CASE o.t = "null" -> <<"N", "o", "n", "e">>
      [] o.t = "bool" -> IF o.b THEN <<"T", "r", "u", "e">> ELSE <<"F", "a", "l", "s", "e">>
      [] o.t = "int" -> IntToStr(o.n)
      [] o.t = "float" -> ReprFloat(o)
      [] o.t = "str" -> o.s
      [] OTHER -> <<"<", "o", "b", "j", ">">>

\* _flat(o), lines 248-254.  Line 252 iterates the int 0, not the list o:
\* `for x in 0` is a TypeError before any element is looked at.
RECURSIVE Flat(_)
Flat(o) ==
    IF o.t = "dict" THEN
        LET rs == [i \in 1..Len(o.kv) |-> Flat(o.kv[i][2])]
        IN  IF FirstErr(rs) # "" THEN Raise(FirstErr(rs))
            ELSE Ok(Join([i \in 1..Len(o.kv) |-> o.kv[i][1] \o <<":">> \o rs[i].text],
                         <<",">>))
    ELSE IF o.t = "list" THEN Raise("TypeError")
    ELSE Ok(PyStr(o))

---------------------------------------------------------------------------
(* The translation post-processor *)

\* the for loop of lines 282-289
RECURSIVE ChunkLoop(_, _, _)
ChunkLoop(lines, cur, acc) ==
    IF lines = <<>> THEN (IF cur # <<>> THEN Append(acc, cur) ELSE acc)
    ELSE IF Len(cur) + Len(Head(lines)) > TRANSLATE_CHUNK_SIZE /\ cur # <<>>
        THEN ChunkLoop(Tail(lines), Head(lines), Append(acc, cur))
    ELSE ChunkLoop(Tail(lines), cur \o Head(lines), acc)

\* a slip: the text is cut every TRANSLATE_CHUNK_SIZE characters, lines or not
RECURSIVE FixedWidthPieces(_)
FixedWidthPieces(text) ==
    IF Len(text) <= TRANSLATE_CHUNK_SIZE THEN <<text>>
    ELSE <<SubSeq(text, 1, TRANSLATE_CHUNK_SIZE)>>
         \o FixedWidthPieces(SubSeq(text, TRANSLATE_CHUNK_SIZE + 1, Len(text)))

\* lines 274-289: the pieces of `content`
ChunkPieces(text) ==
    IF Len(text) <= TRANSLATE_CHUNK_SIZE THEN <<text>>
    ELSE ChunkLoop(SplitLinesKeepEnds(text), <<>>, <<>>)

\* what the translation service answers for a piece: some other text
Translated(piece) == <<"#">> \o piece

\* a slip: the except branch of lines 299-301 appends nothing
PieceAfterDropped(piece, outcome) ==
    IF outcome = "ok" THEN <<Translated(piece)>> ELSE <<>>

\* what one pass of the loop of lines 292-301 appends for a piece: the
\* translation; or the piece itself, which translate() returns when the service
\* call fails (translation.py:82-86) and which line 301 appends when translate()
\* itself raises (_ensure_translator, translation.py:18-22)
PieceAfter(piece, outcome) ==
    IF outcome = "ok" THEN <<Translated(piece)>> ELSE <<piece>>

---------------------------------------------------------------------------
(* Strings of the quoting specification *)

Alphabet == {"a", " ", ":", ",", "|", "\n", "\r", "\f", "\"", "\\"}
Delimiters == {",", "|"}

StringsUpTo(n) == UNION {[1..k -> Alphabet] : k \in 0..n}

---------------------------------------------------------------------------
(* The quoting specification: _escape_and_quote_string on every string of  *)
(* up to MaxStrLen characters                                              *)

Idle ==
    /\ indent = 2
    /\ key_folding = FALSE
    /\ strict_fallback = "none"
    /\ translate_to = "none"
    /\ translator = "available"
    /\ exc = ""
    /\ pieces = <<>>
    /\ translated_pieces = <<>>
    /\ outcomes = <<>>
    /\ token_count = "none"

InitQuote ==
    /\ pc = "quote"
    /\ data \in {StrV(s) : s \in StringsUpTo(MaxStrLen)}
    /\ delimiter \in Delimiters
    /\ content = <<>>
    /\ Idle

QuoteString ==
    /\ pc = "quote"
    /\ content' = EscapeAndQuoteString(data.s)
    /\ pc' = "quoted"
    /\ UNCHANGED <<data, delimiter, indent, key_folding, strict_fallback, translate_to,
                   translator, exc, pieces, translated_pieces, outcomes, token_count>>

NextQuote == QuoteString

SpecQuote == InitQuote /\ [][NextQuote]_vars

\* s holds none of the special characters and neither starts nor ends with a space
PlainString(s) ==
    /\ \A i \in 1..Len(s) : s[i] \notin {delimiter, ":", "\n", "\r", "\"", "\\"}
    /\ (s # <<>> => s[1] # " " /\ s[Len(s)] # " ")

\* C7 as stated: the escaping/quoting routine returns every plain string
\* unchanged, the empty string included.
C7_PlainUnchanged ==
    (pc = "quoted" /\ PlainString(data.s)) => content = data.s

\* C7 amended: the escaping/quoting routine returns every non-empty plain string
\* unchanged (no escaping, no surrounding quotes); the empty string, which is
\* plain, comes back as the two-character text of two double quotes.
C7_NonEmptyPlainUnchanged ==
    /\ (pc = "quoted" /\ PlainString(data.s) /\ data.s # <<>>) => content = data.s
    /\ (pc = "quoted" /\ data.s = <<>>) => content = <<"\"", "\"">>

\* a plain string with an inner space and a form feed has been through the routine
C7_Witness ==
    /\ pc = "quoted"
    /\ PlainString(data.s)
    /\ data.s = <<"a", " ", "\f">>
    /\ content = data.s


---------------------------------------------------------------------------
(* The input trees *)

KA == <<"a">>
KB == <<"b">>
KO == <<"o">>
KDotted == <<"a", ".", "b">>

PrimsCore == {IntV(1), StrV(<<"x", "\f", "y">>)}

Prims ==
    PrimsCore \cup
    {Null, BoolV(TRUE), BoolV(FALSE), IntV(12), IntV(3), FloatV(3, 0), FloatV(3, 5),
     StrV(<<>>), StrV(<<"a">>), StrV(<<"n", "u", "l", "l">>), StrV(<<"1">>),
     StrV(<<"a", ",", "b">>), StrV(<<"a", "|", "b">>), StrV(<<"a", ":", "b">>),
     StrV(<<" ", "a">>), StrV(<<"a", "\n", "b">>), StrV(<<"a", "\r">>),
     StrV(<<"a", "\"">>), StrV(<<"a", "\\">>)}

Leaves == PrimsCore \cup {Opaque}

SeqsUpTo(E, n) == UNION {[1..k -> E] : k \in 0..n}

\* objects of at most two entries over E
ObjectsOver(E) ==
    {DictV(<<>>)}
    \cup {DictV(<< <<k, v>> >>) : k \in {KA, KB, KDotted}, v \in E}
    \cup {DictV(<< <<KA, v>>, <<KB, w>> >>) : v \in E, w \in E}
    \cup {DictV(<< <<KB, v>>, <<KA, w>> >>) : v \in E, w \in E}

\* the elements of the arrays of objects
RowObjects ==
    {DictV(<<>>),
     DictV(<< <<KA, IntV(1)>>, <<KB, StrV(<<"a", ",", "b">>)>> >>),
     DictV(<< <<KB, Null>>, <<KA, IntV(12)>> >>),
     DictV(<< <<KA, ListV(<<IntV(1)>>)>> >>)}

Layer1 ==
    {ListV(a) : a \in SeqsUpTo(Leaves, MaxArrLen)}
    \cup ObjectsOver(Leaves)
    \cup {ListV(a) : a \in SeqsUpTo(RowObjects, MaxArrLen)}

Layer2Dicts == {DictV(<< <<KA, v>> >>) : v \in Layer1}

Layer2 ==
    Layer2Dicts
    \cup {ListV(<<v>>) : v \in Layer1}
    \cup {ListV(<<IntV(1), v>>) : v \in Layer1}

Layer3 ==
    {DictV(<< <<KO, v>> >>) : v \in Layer2Dicts}
    \cup {DictV(<< <<KB, IntV(1)>>, <<KO, v>> >>) : v \in Layer2Dicts}

Trees == Prims \cup {Opaque} \cup Layer1 \cup Layer2 \cup Layer3

\* the trees whose text goes through translation
SmallTrees ==
    Prims
    \cup {DictV(<< <<KA, v>>, <<KB, w>> >>) : v \in PrimsCore, w \in PrimsCore}
    \cup {ListV(a) : a \in SeqsUpTo(RowObjects, MaxArrLen)}

RECURSIVE IsValueTree(_)
IsValueTree(v) ==
    CASE v.t = "list" -> \A i \in 1..Len(v.items) : IsValueTree(v.items[i])
      [] v.t = "dict" -> \A i \in 1..Len(v.kv) : IsValueTree(v.kv[i][2])
      [] OTHER -> IsPrimitive(v)

---------------------------------------------------------------------------
(* format(): the steps between its suspension points *)

NoTokens == -1

Init ==
    /\ pc = "compact"
    /\ \/ /\ data \in Trees
          /\ delimiter \in Delimiters
          /\ key_folding \in BOOLEAN
          /\ strict_fallback \in {"none", "json", "compact"}
          /\ translate_to = "none"
          /\ translator = "available"
       \/ /\ data \in SmallTrees
          /\ delimiter = ","
          /\ key_folding = FALSE
          /\ strict_fallback \in {"none", "json"}
          /\ translate_to \in {"none", "chinese"}
          /\ translator \in {"available", "no_library", "import_failed"}
    /\ indent \in 0..MaxIndent
    /\ exc = ""
    /\ content = <<>>
    /\ pieces = <<>>
    /\ translated_pieces = <<>>
    /\ outcomes = <<>>
    /\ token_count = NoTokens

\* lines 238-239, the try body
Encode ==
    /\ pc = "compact"
    /\ LET r == Compact(data, 0)
       IN  IF r.err = ""
           THEN content' = r.text /\ exc' = "" /\ pc' = "translate"
           ELSE content' = content /\ exc' = r.err /\ pc' = "except"
    /\ UNCHANGED <<data, delimiter, indent, key_folding, strict_fallback, translate_to,
                   translator, pieces, translated_pieces, outcomes, token_count>>

\* a slip: the handler knows "compact" only, and re-raises under "json"
HandlerResultNoJson ==
    IF strict_fallback = "compact" THEN Flat(data) ELSE Raise(exc)

\* what the handler of lines 240-258 leaves: the content, or the exception that
\* goes to the caller
HandlerResult ==
    IF strict_fallback = "json" THEN JsonDumps(data)
    ELSE IF strict_fallback = "compact" THEN Flat(data)
    ELSE Raise(exc)

Fallback ==
    /\ pc = "except"
    /\ IF HandlerResult.err = ""
       THEN content' = HandlerResult.text /\ exc' = "" /\ pc' = "translate"
       ELSE content' = content /\ exc' = HandlerResult.err /\ pc' = "raised"
    /\ UNCHANGED <<data, delimiter, indent, key_folding, strict_fallback, translate_to,
                   translator, pieces, translated_pieces, outcomes, token_count>>

\* line 262, translation not asked for
SkipTranslation ==
    /\ pc = "translate"
    /\ translate_to = "none"
    /\ pc' = "count"
    /\ UNCHANGED <<data, delimiter, indent, key_folding, strict_fallback, translate_to,
                   translator, exc, content, pieces, translated_pieces, outcomes,
                   token_count>>

\* lines 263-266: the import of line 12 failed and left translate = None
TranslationUnavailable ==
    /\ pc = "translate"
    /\ translate_to # "none"
    /\ translator = "import_failed"
    /\ exc' = "RuntimeError"
    /\ pc' = "raised"
    /\ UNCHANGED <<data, delimiter, indent, key_folding, strict_fallback, translate_to,
                   translator, content, pieces, translated_pieces, outcomes, token_count>>

\* lines 273-291
ChunkText ==
    /\ pc = "translate"
    /\ translate_to # "none"
    /\ translator # "import_failed"
    /\ pieces' = ChunkPieces(content)
    /\ translated_pieces' = <<>>
    /\ outcomes' = <<>>
    /\ pc' = "pieces"
    /\ UNCHANGED <<data, delimiter, indent, key_folding, strict_fallback, translate_to,
                   translator, exc, content, token_count>>

\* how a translate call can end: without googletrans _ensure_translator raises on
\* every call; with it the service answers or fails
CallOutcomes == IF translator = "no_library" THEN {"unavailable"} ELSE {"ok", "failed"}

\* lines 292-301, one pass of the loop: the await of one piece's translation
TranslatePiece ==
    /\ pc = "pieces"
    /\ Len(translated_pieces) < Len(pieces)
    /\ \E outcome \in CallOutcomes :
        /\ translated_pieces' =
              translated_pieces \o PieceAfter(pieces[Len(translated_pieces) + 1], outcome)
        /\ outcomes' = Append(outcomes, outcome)
    /\ UNCHANGED <<pc, data, delimiter, indent, key_folding, strict_fallback, translate_to,
                   translator, exc, content, pieces, token_count>>

\* line 302
JoinPieces ==
    /\ pc = "pieces"
    /\ Len(translated_pieces) >= Len(pieces)
    /\ content' = Flatten(translated_pieces)
    /\ pc' = "count"
    /\ UNCHANGED <<data, delimiter, indent, key_folding, strict_fallback, translate_to,
                   translator, exc, pieces, translated_pieces, outcomes, token_count>>

\* lines 304-315: count_tokens gives a count or raises; either way the record
\* is returned
Return ==
    /\ pc = "count"
    /\ \E counted \in BOOLEAN :
        token_count' = IF counted THEN Len(content) ELSE NoTokens
    /\ pc' = "done"
    /\ UNCHANGED <<data, delimiter, indent, key_folding, strict_fallback, translate_to,
                   translator, exc, content, pieces, translated_pieces, outcomes>>

Next ==
    \/ Encode
    \/ Fallback
    \/ SkipTranslation
    \/ TranslationUnavailable
    \/ ChunkText
    \/ TranslatePiece
    \/ JoinPieces
    \/ Return

Spec == Init /\ [][Next]_vars


---------------------------------------------------------------------------
(* The splitter specification: the chunking of lines 273-289 on every text *)
(* of up to MaxTextLen characters                                          *)

TextAlphabet == {"a", "\n", "\r", "\f"}

InitSplit ==
    /\ pc = "translate"
    /\ content \in UNION {[1..k -> TextAlphabet] : k \in 0..MaxTextLen}
    /\ data = StrV(<<>>)
    /\ delimiter = ","
    /\ indent = 2
    /\ key_folding = FALSE
    /\ strict_fallback = "none"
    /\ translate_to = "chinese"
    /\ translator = "available"
    /\ exc = ""
    /\ pieces = <<>>
    /\ translated_pieces = <<>>
    /\ outcomes = <<>>
    /\ token_count = NoTokens

NextSplit == ChunkText

SpecSplit == InitSplit /\ [][NextSplit]_vars

---------------------------------------------------------------------------
(* Claims *)

EngineFailed == Compact(data, 0).err # ""

\* C1: with strict_fallback = "json" and no translation, format never raises on
\* a Value tree, whatever delimiter, indent and key_folding are: no step leaves
\* an exception for the caller, the handler entered on an engine failure ends
\* with a content, and what is returned is the engine's text or, when the
\* engine failed, json's.
C1_JsonFallbackNeverRaises ==
    (IsValueTree(data) /\ strict_fallback = "json" /\ translate_to = "none") =>
        /\ pc # "raised"
        /\ pc = "except" => HandlerResult.err = ""
        /\ pc = "done" =>
              content = IF EngineFailed THEN JsonDumps(data).text
                        ELSE Compact(data, 0).text

\* the engine failed on {"a": 1} under key folding and format returned json's text
C1_Witness ==
    /\ pc = "done"
    /\ strict_fallback = "json"
    /\ key_folding
    /\ data = DictV(<< <<KA, IntV(1)>> >>)
    /\ EngineFailed
    /\ content = <<"{", "\"", "a", "\"", ":", " ", "1", "}">>

\* C2: when the engine fails and strict_fallback = "compact", the compact
\* fallback does not raise, whatever the tree holds.
C2_CompactFallbackNeverRaises ==
    (strict_fallback = "compact" /\ translate_to = "none") => pc # "raised"

\* C6: with key folding on, an object that starts a chain of n >= 1 single-key
\* objects with identifier keys is rendered (the engine does not fail on it) as
\* one entry whose key is the n names joined by dots.
C6_FoldsEveryChain ==
    (/\ key_folding
     /\ IsValueTree(data)
     /\ data.t = "dict"
     /\ FoldChain(data, <<>>).keys # <<>>
     /\ pc # "compact") =>
        /\ pc \notin {"except", "raised"}
        /\ strict_fallback = "none" =>
              StartsWith(content, Join(FoldChain(data, <<>>).keys, <<".">>))

\* C8: for fixed options, no other tree encodes to the text this tree encodes to.
C8_Unambiguous ==
    (pc = "translate" /\ ~EngineFailed) =>
        \A other \in Prims \cup ObjectsOver(PrimsCore) :
            (other # data /\ Compact(other, 0).err = "") =>
                Compact(other, 0).text # content

LastOf(p) == p[Len(p)]

\* p is one line: no line break but the one that may end it
SingleLine(p) ==
    \A i \in 1..(Len(p) - 1) :
        p[i] \in LineBoundaries => (i = Len(p) - 1 /\ p[i] = "\r" /\ p[Len(p)] = "\n")

OutputChunk(i) == IF outcomes[i] = "ok" THEN Translated(pieces[i]) ELSE pieces[i]

\* C10: whatever calls succeed or fail, each piece translated so far stands at
\* its input piece's position (its translation if the call succeeded, the piece
\* itself if not); once the loop is over every piece has been attempted and
\* the content is the output chunks concatenated in the order of the input
\* chunks; and a failed call never leaves an exception for the caller.
C10_ChunksReassembledInOrder ==
    (translate_to # "none" /\ translator # "import_failed" /\ ~EngineFailed) =>
        /\ pc # "raised"
        /\ pc = "pieces" =>
              /\ Len(translated_pieces) = Len(outcomes)
              /\ Len(outcomes) <= Len(pieces)
              /\ \A i \in 1..Len(outcomes) : translated_pieces[i] = OutputChunk(i)
        /\ pc \in {"count", "done"} =>
              /\ Len(outcomes) = Len(pieces)
              /\ content = Flatten([i \in 1..Len(pieces) |-> OutputChunk(i)])

\* three chunks, the middle call failed, the others translated, format returned
C10_Witness ==
    /\ pc = "done"
    /\ Len(pieces) = 3
    /\ outcomes = <<"ok", "failed", "ok">>
    /\ content = Translated(pieces[1]) \o pieces[2] \o Translated(pieces[3])


---------------------------------------------------------------------------
(* Claims about the shape of the output *)

\* content.split("\n"): the lines of the output
RECURSIVE SplitOnNewline(_, _)
SplitOnNewline(rest, cur) ==
    IF rest = <<>> THEN <<cur>>
    ELSE IF Head(rest) = "\n" THEN <<cur>> \o SplitOnNewline(Tail(rest), <<>>)
    ELSE SplitOnNewline(Tail(rest), Append(cur, Head(rest)))

OutputLines == SplitOnNewline(content, <<>>)

RECURSIVE StripLeft(_)
StripLeft(ln) == IF ln # <<>> /\ Head(ln) = " " THEN StripLeft(Tail(ln)) ELSE ln

\* the arrays of a tree: the tree itself, the values of keys, the elements of
\* arrays, at any depth
RECURSIVE ArraysIn(_)
ArraysIn(v) ==
    CASE v.t = "list" -> {v.items} \cup UNION {ArraysIn(v.items[i]) : i \in 1..Len(v.items)}
      [] v.t = "dict" -> UNION {ArraysIn(v.kv[i][2]) : i \in 1..Len(v.kv)}
      [] OTHER -> {}

AllPrimitives(arr) ==
    \A i \in 1..Len(arr) : arr[i].t \in {"null", "bool", "int", "float", "str"}

\* non-empty, all objects, one key set, primitive values only
UniformObjects(arr) ==
    /\ Len(arr) >= 1
    /\ \A i \in 1..Len(arr) :
          /\ arr[i].t = "dict"
          /\ {arr[i].kv[j][1] : j \in 1..Len(arr[i].kv)}
             = {arr[1].kv[j][1] : j \in 1..Len(arr[1].kv)}
          /\ AllPrimitives([j \in 1..Len(arr[i].kv) |-> arr[i].kv[j][2]])

\* an array with a non-primitive element that keeps it from being tabular
MixedArray(arr) == ~AllPrimitives(arr) /\ ~UniformObjects(arr)

\* the cells of the i-th element, in the first element's key order
RowOf(arr, i) ==
    Join([j \in 1..Len(arr[1].kv) |->
            CompactPrimitive(
                arr[i].kv[CHOOSE m \in 1..Len(arr[i].kv) :
                              arr[i].kv[m][1] = arr[1].kv[j][1]][2])],
         <<delimiter>>)

HeaderOf(arr) ==
    <<"[">> \o NatToStr(Len(arr)) \o <<"]", "{">>
    \o Join([j \in 1..Len(arr[1].kv) |-> arr[1].kv[j][1]], <<",">>) \o <<"}">>

Rendered == pc = "done" /\ translate_to = "none" /\ ~EngineFailed

\* C3: every uniform array of objects of the tree, at top level or under a key
\* at any depth, whatever the indent, is in the output as a header with its
\* length and the first element's keys, followed at once by one row line per
\* element, the i-th holding the i-th element's cells in field order.
C3_TabularHeaderAndRows ==
    Rendered =>
        \A arr \in ArraysIn(data) :
            UniformObjects(arr) =>
                \E h \in 1..Len(OutputLines) :
                    /\ \/ EndsWith(OutputLines[h], HeaderOf(arr))
                       \/ EndsWith(OutputLines[h], HeaderOf(arr) \o <<":">>)
                    /\ \A i \in 1..Len(arr) :
                          /\ h + i <= Len(OutputLines)
                          /\ StripLeft(OutputLines[h + i]) = RowOf(arr, i)

HasBrace(ln) == Contains(ln, "{")

BraceLines == Cardinality({i \in 1..Len(OutputLines) : HasBrace(OutputLines[i])})

RECURSIVE SumOf(_)
SumOf(ns) == IF ns = <<>> THEN 0 ELSE Head(ns) + SumOf(Tail(ns))

\* how many arrays of the tree are uniform arrays of objects
RECURSIVE TabularArrays(_)
TabularArrays(v) ==
    CASE v.t = "list" ->
            (IF UniformObjects(v.items) THEN 1 ELSE 0)
            + SumOf([i \in 1..Len(v.items) |-> TabularArrays(v.items[i])])
      [] v.t = "dict" -> SumOf([i \in 1..Len(v.kv) |-> TabularArrays(v.kv[i][2])])
      [] OTHER -> 0

\* the tree is a mixed array, or an object whose one entry holds one: its block
\* is the whole output
IsMixedBlock ==
    \/ data.t = "list" /\ MixedArray(data.items)
    \/ /\ data.t = "dict"
       /\ Len(data.kv) = 1
       /\ data.kv[1][2].t = "list"
       /\ MixedArray(data.kv[1][2].items)

\* C4 as stated: the block of a mixed array, what its elements recurse into
\* included, holds no {...} tabular header.
C4_NoTabularHeaderInBlock ==
    (Rendered /\ IsMixedBlock) => BraceLines = 0

\* C4 amended: the header line of a mixed array's block is its length tag and a
\* colon, never a {...} field list; the tabular headers of the output are those
\* of the uniform arrays of objects of the tree, one each, so a mixed array's
\* block holds one only for a uniform array of objects nested in it.
C4_MixedHeaderNeverTabular ==
    Rendered =>
        /\ BraceLines = TabularArrays(data)
        /\ (data.t = "list" /\ MixedArray(data.items)) =>
              OutputLines[1] = <<"[">> \o NatToStr(Len(data.items)) \o <<"]", ":">>
        /\ \A arr \in ArraysIn(data) :
              MixedArray(arr) =>
                  \E h \in 1..Len(OutputLines) :
                      /\ EndsWith(OutputLines[h], <<"[">> \o NatToStr(Len(arr)) \o <<"]", ":">>)
                      /\ ~HasBrace(OutputLines[h])

\* the mixed array [1, [{"b": null, "a": 12}]] was rendered: a dash line for 1
\* and, in the second dash item, the tabular header and the row of the nested array
C4_Witness ==
    /\ Rendered
    /\ data = ListV(<<IntV(1), ListV(<<DictV(<< <<KB, Null>>, <<KA, IntV(12)>> >>)>>)>>)
    /\ indent = 1
    /\ delimiter = ","
    /\ OutputLines = << <<"[", "2", "]", ":">>,
                        <<" ", "-", " ", "1">>,
                        <<" ", "-", " ", " ", " ", "[", "1", "]", "{", "b", ",", "a", "}", ":">>,
                        <<" ", " ", " ", "n", "u", "l", "l", ",", "1", "2">> >>

\* C5: every array of primitives of the tree, the empty one included, is in the
\* output as one line: the length tag, a colon and a space, and the cells
\* joined by the delimiter.
C5_PrimitiveArrayOneLine ==
    Rendered =>
        \A arr \in ArraysIn(data) :
            AllPrimitives(arr) =>
                \E h \in 1..Len(OutputLines) :
                    EndsWith(OutputLines[h],
                             <<"[">> \o NatToStr(Len(arr)) \o <<"]", ":", " ">>
                             \o Join([i \in 1..Len(arr) |-> CompactPrimitive(arr[i])],
                                     <<delimiter>>))

---------------------------------------------------------------------------
(* The translation-unavailable error *)

\* the translation collaborator is not configured: googletrans is missing, or
\* the import of the translation module failed
Unconfigured == translator \in {"no_library", "import_failed"}

\* C11: format ends with the translation-unavailable RuntimeError exactly when
\* translation was requested and the translator is not configured; when it was
\* not requested, an unconfigured translator causes no error.
C11_HardErrorIffRequestedAndUnconfigured ==
    (pc \in {"done", "raised"} /\ ~EngineFailed) =>
        ((pc = "raised" /\ exc = "RuntimeError")
            <=> (translate_to # "none" /\ Unconfigured))

---------------------------------------------------------------------------
(* The calls of the engine *)

\* the number of nodes of a tree
RECURSIVE Size(_)
Size(v) ==
    IF v.t = "list" THEN 1 + SumOf([i \in 1..Len(v.items) |-> Size(v.items[i])])
    ELSE IF v.t = "dict" THEN 1 + SumOf([i \in 1..Len(v.kv) |-> Size(v.kv[i][2])])
    ELSE 1

\* what a run of calls leaves: n, the calls of _compact made; reenters, a call
\* was made on an input equal to its caller's (n stops there: that call repeats
\* itself until the recursion limit); raised, an exception ended the run
NoCalls == [n |-> 0, reenters |-> FALSE, raised |-> FALSE]
InlineRaise == [n |-> 0, reenters |-> FALSE, raised |-> TRUE]

\* a step of a loop body: a call _compact(v, ...), or a _compact_primitive(v)
\* that raises with no call (line 207 on a value that is no Value)
CallStep(v) == [call |-> TRUE, v |-> v]
RaiseStep(v) == [call |-> FALSE, v |-> v]

\* the calls of lines 190 and 229, one per non-primitive element
DashSteps(arr) ==
    LET F[i \in 0..Len(arr)] ==
            IF i = 0 THEN <<>>
            ELSE IF IsPrimitive(arr[i]) THEN F[i - 1]
            ELSE Append(F[i - 1], CallStep(arr[i]))
    IN  F[Len(arr)]

\* the calls one pass of `for k, v in obj.items()` makes (lines 163-207)
EntrySteps(v) ==
    IF v.t = "list" THEN
        IF IsUniformArrayOfObjects(v.items) \/ IsUniformArrayOfPrimitives(v.items)
        THEN <<>>
        ELSE DashSteps(v.items)
    ELSE IF v.t = "dict" THEN <<CallStep(v)>>
    ELSE IF IsPrimitive(v) THEN <<>>
    ELSE <<RaiseStep(v)>>

\* the calls the body of _compact(obj) makes, in order
BodySteps(obj) ==
    IF obj.t = "dict" THEN
        IF TakesFold(obj) THEN <<CallStep(Folded(obj))>>
        ELSE Flatten([i \in 1..Len(obj.kv) |-> EntrySteps(obj.kv[i][2])])
    ELSE IF obj.t = "list" THEN
        IF IsUniformArrayOfObjects(obj.items) \/ IsUniformArrayOfPrimitives(obj.items)
        THEN <<>>
        ELSE DashSteps(obj.items)
    ELSE <<>>

RECURSIVE CompactCalls(_)

\* the steps run left to right; the first exception ends the run
RECURSIVE RunSteps(_, _)
RunSteps(steps, caller) ==
    IF steps = <<>> THEN NoCalls
    ELSE LET s == Head(steps)
             h == IF ~s.call THEN InlineRaise
                  ELSE IF s.v = caller
                       THEN [n |-> 1, reenters |-> TRUE, raised |-> TRUE]
                       ELSE CompactCalls(s.v)
         IN  IF h.raised THEN h
             ELSE LET t == RunSteps(Tail(steps), caller)
                  IN  [n |-> h.n + t.n, reenters |-> t.reenters, raised |-> t.raised]

\* the call _compact(obj, ...) and all it causes
CompactCalls(obj) ==
    LET body == RunSteps(BodySteps(obj), obj)
        own == obj.t = "opaque"
    IN  [n |-> 1 + body.n, reenters |-> body.reenters, raised |-> body.raised \/ own]

\* the call counting and the engine agree on which runs end in an exception
CallsAgreeWithEngine == CompactCalls(data).raised <=> EngineFailed

\* C12: on every Value tree and under all options the encoding terminates: no
\* call re-enters the engine on an input equal to its own, and the number of
\* calls is at most the size of the tree.
C12_EncodingTerminates ==
    (pc # "compact" /\ IsValueTree(data)) =>
        /\ ~CompactCalls(data).reenters
        /\ CompactCalls(data).n <= Size(data)

---------------------------------------------------------------------------
(* Key folding applied to its own result *)

\* the names of the chain of single-key objects with identifier keys that v starts
RECURSIVE ChainKeys(_)
ChainKeys(v) ==
    IF v.t = "dict" /\ Len(v.kv) = 1 /\ ValidIdentifier(v.kv[1][1])
    THEN <<v.kv[1][1]>> \o ChainKeys(v.kv[1][2])
    ELSE <<>>

\* the node the chain ends at
RECURSIVE ChainEnd(_)
ChainEnd(v) ==
    IF v.t = "dict" /\ Len(v.kv) = 1 /\ ValidIdentifier(v.kv[1][1])
    THEN ChainEnd(v.kv[1][2])
    ELSE v

\* the synthetic single-entry object of the chain: dotted key, terminal value
Synthetic(v) == DictV(<< <<Join(ChainKeys(v), <<".">>), ChainEnd(v)>> >>)

\* C13: with key folding on, encoding a chain ends as encoding its synthetic
\* single-entry object ends: in the same text, or in the same exception.
C13_FoldingIdempotent ==
    (key_folding /\ ChainKeys(data) # <<>>) =>
        LET r == Compact(Synthetic(data), 0)
        IN  /\ pc = "except" => exc = r.err
            /\ (pc = "translate" /\ ~EngineFailed) => (r.err = "" /\ content = r.text)

\* a chain of two names and the encoding of its synthetic object
C13_Witness ==
    /\ pc = "translate"
    /\ key_folding
    /\ indent = 1
    /\ data = DictV(<< <<KA, DictV(<< <<KB, IntV(1)>> >>)>> >>)
    /\ Synthetic(data) = DictV(<< <<KDotted, IntV(1)>> >>)
    /\ content = KDotted \o <<":", " ", "1">>
    /\ content = Compact(Synthetic(data), 0).text

---------------------------------------------------------------------------
(* The end of the engine's text *)

\* C14: the text the engine returns never ends with a newline character,
\* whatever the tree, the indent and the delimiter.
C14_NoTrailingNewline ==
    (pc = "translate" /\ ~EngineFailed) =>
        (content = <<>> \/ LastOf(content) # "\n")

====
